---- MODULE Spec2Model ----
(***************************************************************************)
(* A model of the shop bot of src/bot.py: the sqlite store behind class    *)
(* Database (categories, products, orders, sqlite_sequence), the published *)
(* snapshot api/products.json and api/categories.json, the aiogram FSM     *)
(* sessions of the add-category and add-product wizards, and the order     *)
(* intake endpoint.                                                        *)
(*                                                                         *)
(* Spec is the running bot: every step is one handler of the router or one *)
(* request of the HTTP API, handled to completion.  The other              *)
(* specifications take the same steps over a part of the events, or call   *)
(* the methods of Database directly; they are listed at the end.           *)
(***************************************************************************)
EXTENDS Integers, Sequences, FiniteSets, TLC

VARIABLES
    categories,       \* rows of table categories
    products,         \* rows of table products
    orders,           \* rows of table orders
    sqlite_sequence,  \* AUTOINCREMENT bookkeeping, one counter per table
    api_products,     \* contents of api/products.json
    api_categories,   \* contents of api/categories.json
    pending,          \* the calls suspended in an await: exports in
                      \* bot.get_file, terminal handlers in message.answer
    fsm_state,        \* MemoryStorage: the FSM state of each user
    fsm_data,         \* MemoryStorage: the FSM data of each user
    keyboards,        \* what the inline keyboards sent so far offer: category
                      \* ids, and the confirm_clear button
    flow,             \* history: the wizard whose screen each user used last
    last              \* history: the operation that ran last and its outcome

vars == <<categories, products, orders, sqlite_sequence, api_products,
          api_categories, pending, fsm_state, fsm_data, keyboards, flow, last>>

storeVars == <<categories, products, orders, sqlite_sequence>>
snapshotVars == <<api_products, api_categories, pending>>
fsmVars == <<fsm_state, fsm_data, keyboards, flow>>

----------------------------------------------------------------------------
(* Bounds of the model.  The largest row id each table hands out. *)

MaxCategoryId == 2
MaxProductId == 1
MaxOrderId == 2

\* The largest number of calls suspended at the same time.
MaxTasks == 2

----------------------------------------------------------------------------
(* Identities and SQL NULL. *)

ADMIN_ID == 1
Stranger == 2
Users == {ADMIN_ID, Stranger}

NULL == 0

Tables == {"categories", "products", "orders"}

----------------------------------------------------------------------------
(* Texts are sequences of one-character strings, so that str.strip, len    *)
(* and float are computed as Python computes them.                         *)

Whitespace == {" "}
Digits == {"0", "1", "2", "3", "4", "5", "6", "7", "8", "9"}

DigitValue ==
    ("0" :> 0) @@ ("1" :> 1) @@ ("2" :> 2) @@ ("3" :> 3) @@ ("4" :> 4) @@
    ("5" :> 5) @@ ("6" :> 6) @@ ("7" :> 7) @@ ("8" :> 8) @@ ("9" :> 9)

NoText == <<>>

RECURSIVE LStrip(_)
LStrip(s) ==
    IF s # <<>> /\ Head(s) \in Whitespace THEN LStrip(Tail(s)) ELSE s

RECURSIVE RStrip(_)
RStrip(s) ==
    IF s # <<>> /\ s[Len(s)] \in Whitespace
    THEN RStrip(SubSeq(s, 1, Len(s) - 1))
    ELSE s

\* str.strip()
Strip(s) == RStrip(LStrip(s))

\* str.replace(',', '.')
ReplaceComma(s) == [i \in 1..Len(s) |-> IF s[i] = "," THEN "." ELSE s[i]]

RECURSIVE DigitsValue(_)
DigitsValue(s) ==
    IF s = <<>> THEN 0
    ELSE 10 * DigitsValue(SubSeq(s, 1, Len(s) - 1)) + DigitValue[s[Len(s)]]

\* A float is [kind, v]: kind "num" with v the value in hundredths, or "inf",
\* "nan"; kind "ValueError" stands for float() raising.
Float(k, v) == [kind |-> k, v |-> v]
ValueError == Float("ValueError", 0)
NoPrice == Float("absent", 0)

\* The hundredths a fraction part stands for (two places are kept).
FractionValue(f) ==
    IF Len(f) = 0 THEN 0
    ELSE IF Len(f) = 1 THEN 10 * DigitValue[f[1]]
    ELSE DigitsValue(SubSeq(f, 1, 2))

\* float(text) on the alphabet of the model: an optional sign, then inf, nan
\* or decimal digits with at most one point and at least one digit.
ParseFloat(text) ==
    LET s == Strip(text)
        signed == s # <<>> /\ Head(s) \in {"+", "-"}
        negative == signed /\ Head(s) = "-"
        body == IF signed THEN Tail(s) ELSE s
        dots == {i \in 1..Len(body) : body[i] = "."}
        wellFormed ==
            /\ \A i \in 1..Len(body) : body[i] \in Digits \cup {"."}
            /\ Cardinality(dots) <= 1
            /\ \E i \in 1..Len(body) : body[i] \in Digits
        dot == IF dots = {} THEN Len(body) + 1 ELSE CHOOSE i \in dots : TRUE
        whole == SubSeq(body, 1, dot - 1)
        fraction == SubSeq(body, dot + 1, Len(body))
        magnitude == 100 * DigitsValue(whole) + FractionValue(fraction)
    IN  IF body = <<"i", "n", "f">>
            THEN Float(IF negative THEN "-inf" ELSE "inf", 0)
        ELSE IF body = <<"n", "a", "n">> THEN Float("nan", 0)
        ELSE IF wellFormed
            THEN Float("num", IF negative THEN 0 - magnitude ELSE magnitude)
        ELSE ValueError

----------------------------------------------------------------------------
(* Faulty variants of the code, which the properties at the end must tell  *)
(* apart from it.                                                          *)

\* `if price < 0` for `if price <= 0`
NotPositiveStrict(price) ==
    \/ price.kind = "-inf"
    \/ price.kind = "num" /\ price.v < 0

\* JOIN for LEFT JOIN: a product whose category row is gone is not listed
InnerJoinProducts(P, C, readable) ==
    IF ~readable THEN {}
    ELSE {("category_name" :> (CHOOSE c \in C : c.id = p.category_id).name) @@ p :
              p \in {q \in P : \E c \in C : c.id = q.category_id}}

\* UPDATE products SET in_stock = 0: the switch only ever goes off
ProductsAfterSwitchOff(P, product_id) ==
    {IF p.id = product_id THEN [p EXCEPT !.in_stock = 0] ELSE p : p \in P}

\* `return bool(new_stock)` for `return True`
ToggleReturnsNewStock(new_stock) == new_stock # 0

RECURSIVE LineSum(_)
LineSum(items) ==
    IF items = <<>> THEN 0
    ELSE Head(items).price * Head(items).quantity + LineSum(Tail(items))

\* An INSERT that stores the sum of the lines instead of data['total_price']
OrderRowRecomputed(id, user_id, username, first_name, items, total_price) ==
    [id |-> id, user_id |-> user_id, username |-> username,
     first_name |-> first_name, items |-> [json |-> items],
     total_price |-> LineSum(items), status |-> "new"]

\* A status column whose default is 'pending'
OrderRowPending(id, user_id, username, first_name, items, total_price) ==
    [id |-> id, user_id |-> user_id, username |-> username,
     first_name |-> first_name, items |-> [json |-> items],
     total_price |-> total_price, status |-> "pending"]

\* An INSERT INTO products whose in_stock value is 0
ProductRowOutOfStock(id, category_id, name, description, price, photo_id) ==
    [id |-> id, category_id |-> category_id, name |-> name,
     description |-> description, price |-> price, photo_id |-> photo_id,
     in_stock |-> 0]

\* UPDATE orders SET status = ? with the WHERE clause lost
OrdersAfterUpdateAll(O, order_id, status) ==
    {[o EXCEPT !.status = status] : o \in O}

\* price <= 0 for a float that parsed
NotPositive(price) ==
    \/ price.kind = "-inf"
    \/ price.kind = "num" /\ price.v <= 0

----------------------------------------------------------------------------
(* The sqlite store.  A row is a record; a table is the set of its rows.   *)
(* created_at is not modelled.                                             *)

Max(S) == CHOOSE x \in S : \A y \in S : y <= x

\* cursor.lastrowid of an INSERT into an INTEGER PRIMARY KEY AUTOINCREMENT
\* table: one more than the largest id the table holds or has ever handed
\* out since its sqlite_sequence row was last deleted.
LastRowId(table, rows) ==
    Max({sqlite_sequence[table]} \cup {r.id : r \in rows}) + 1

MaxRowId ==
    [categories |-> MaxCategoryId, products |-> MaxProductId, orders |-> MaxOrderId]

CategoryRow(id, name, parent_id) ==
    [id |-> id, name |-> name, parent_id |-> parent_id]

ProductRow(id, category_id, name, description, price, photo_id) ==
    [id |-> id, category_id |-> category_id, name |-> name,
     description |-> description, price |-> price, photo_id |-> photo_id,
     in_stock |-> 1]

OrderRow(id, user_id, username, first_name, items, total_price) ==
    [id |-> id, user_id |-> user_id, username |-> username,
     first_name |-> first_name, items |-> [json |-> items],
     total_price |-> total_price, status |-> "new"]

\* What sqlite binds a Python value to: NaN is stored as NULL.
IsSqlNull(price) == price.kind = "nan"

NoPhoto == "None"

\* SELECT name FROM categories WHERE id = ?
get_category_name(category_id) ==
    IF \E c \in categories : c.id = category_id
    THEN (CHOOSE c \in categories : c.id = category_id).name
    ELSE NoText

\* SELECT id, name FROM categories WHERE parent_id IS NULL
get_root_categories == {c \in categories : c.parent_id = NULL}

\* SELECT ... WHERE NOT EXISTS (SELECT 1 FROM categories WHERE parent_id = c.id)
get_leaf_categories ==
    {c \in categories : ~\E d \in categories : d.parent_id = c.id}

\* A faulty variant: SELECT ... FROM orders without WHERE status = 'new'
OrdersOfAnyStatus == orders

\* SELECT ... FROM orders WHERE status = 'new'
get_new_orders == {o \in orders : o.status = "new"}

\* The rows of get_all_products over the tables P and C: the LEFT JOIN adds
\* category_name; a failed read is caught and answered with the empty list.
get_all_products(P, C, readable) ==
    IF ~readable THEN {}
    ELSE {("category_name" :>
              (IF \E c \in C : c.id = p.category_id
               THEN (CHOOSE c \in C : c.id = p.category_id).name
               ELSE NoText)) @@ p : p \in P}

get_all_categories(C, readable) == IF ~readable THEN {} ELSE C

\* The rows DELETE FROM categories WHERE id = ? leaves.  get_connection never
\* issues PRAGMA foreign_keys = ON, so sqlite does not enforce the schema's
\* ON DELETE CASCADE: only the row itself goes.
CategoriesAfterDelete(C, category_id) == {c \in C : c.id # category_id}

\* The products a category delete removes through the foreign key: none,
\* for the same reason.
ProductsAfterCategoryDelete(P, category_id) == P

\* DELETE FROM products WHERE id = ?
ProductsAfterDelete(P, product_id) == {p \in P : p.id # product_id}

\* new_stock = 0 if result[0] else 1; UPDATE products SET in_stock = ?
ProductsAfterToggle(P, product_id) ==
    {IF p.id = product_id
     THEN [p EXCEPT !.in_stock = IF p.in_stock # 0 THEN 0 ELSE 1]
     ELSE p : p \in P}

\* The value toggle_product_stock returns for a product it found.
ToggleReturn(new_stock) == TRUE

\* UPDATE orders SET status = ? WHERE id = ?
OrdersAfterUpdate(O, order_id, status) ==
    {IF o.id = order_id THEN [o EXCEPT !.status = status] ELSE o : o \in O}

----------------------------------------------------------------------------
(* export_to_json.  A snapshot product is the get_all_products row with    *)
(* photo_url added and category_name and photo_id popped.                  *)

\* A faulty variant: the two pops left out.
WithoutNothing(row, keys) == row

Without(row, keys) == [k \in DOMAIN row \ keys |-> row[k]]

NoUrl == <<>>
PhotoUrl(photo_id) == <<"https://api.telegram.org/file/bot", photo_id>>

\* resolved: the photo ids bot.get_file answers for during this export.
ExportedProduct(row, resolved) ==
    Without(("photo_url" :>
                (IF row.photo_id # NoPhoto /\ row.photo_id \in resolved
                 THEN PhotoUrl(row.photo_id)
                 ELSE NoUrl)) @@ row,
            {"category_name", "photo_id"})

\* How one export can go wrong: a store read that fails is answered with the
\* empty list and published; a file that cannot be written ends the export
\* with False, products.json being written before categories.json.
ExportFaults ==
    {"none", "read_products", "read_categories", "write_products",
     "write_categories"}

PhotoIds == {"file1"}

\* The export failures injected while a handler of the bot runs.
BotFaults == {"none"}

\* The failures injected into the terminal handlers of the wizards: none, or
\* an INSERT that raises.
InsertFaults == {"none", "insert"}

\* A faulty variant: an export that gives up, writing nothing, when get_file
\* raises for a product.
ExportAbortingOnPhoto(P, C, fault, resolved) ==
    LET rows == get_all_products(P, C, fault # "read_products")
        cats == get_all_categories(C, fault # "read_categories")
        aborted == \/ fault \in {"write_products", "write_categories"}
                   \/ \E r \in rows : r.photo_id # NoPhoto /\ r.photo_id \notin resolved
    IN  [products   |-> IF aborted THEN api_products
                        ELSE {ExportedProduct(r, resolved) : r \in rows},
         categories |-> IF aborted THEN api_categories ELSE cats,
         result     |-> ~aborted]

\* The files after export_to_json and the value it returns.
Export(P, C, fault, resolved) ==
    LET rows == get_all_products(P, C, fault # "read_products")
        cats == get_all_categories(C, fault # "read_categories")
    IN  [products   |-> IF fault = "write_products" THEN api_products
                        ELSE {ExportedProduct(r, resolved) : r \in rows},
         categories |-> IF fault \in {"write_products", "write_categories"}
                        THEN api_categories
                        ELSE cats,
         result     |-> fault \notin {"write_products", "write_categories"}]

\* await self.export_to_json(), run from its first line to its last while
\* no other handler runs; its result is dropped by every caller
Publish(P, C, fault, resolved) ==
    /\ api_products' = Export(P, C, fault, resolved).products
    /\ api_categories' = Export(P, C, fault, resolved).categories
    /\ pending' = pending

----------------------------------------------------------------------------
(* History. *)

\* op: the method or handler that ran last ("-" when it ended without
\* touching a table, a file or a session); res: how it ended; id: the row id
\* it was given or returned, or the count it reported; exports: the calls of
\* export_to_json it made; fault: what failed around it (a step of that
\* export, or "send_message" for a notification that was not delivered).
Outcome(op, res, id, exports, fault) ==
    [op |-> op, res |-> res, id |-> id, exports |-> exports, fault |-> fault]

NoOutcome == Outcome("init", "none", NULL, 0, "none")

----------------------------------------------------------------------------
(* The inputs of the model. *)

Shoes == <<"S", "h", "o", "e", "s">>
Nike == <<"N", "i", "k", "e">>
AirX == <<"A", "i", "r", " ", "X">>
OneLetter == <<"a", " ">>
FourLetters == <<"a", "b", "c", "d", " ">>

CategoryNames == {Shoes, Nike}
ProductNames == {AirX}

\* 9999.0, in hundredths
Price9999 == Float("num", 999900)

\* The (description, price) pairs of the direct calls of add_product: what
\* the wizard accepts, a description of four characters, a price of -1.0.
DirectProducts ==
    {[description |-> AirX, price |-> Price9999],
     [description |-> Nike, price |-> Price9999],
     [description |-> AirX, price |-> Float("num", -100)]}

Photos == {NoPhoto} \cup PhotoIds

TwoItems ==
    <<[name |-> "A", price |-> 100, quantity |-> 2],
      [name |-> "B", price |-> 50, quantity |-> 1]>>

\* The (items, total_price) pairs of the order payloads: the true line sum,
\* a total that is not the line sum, and an empty order.
Baskets ==
    {[items |-> TwoItems, total_price |-> 250],
     [items |-> TwoItems, total_price |-> 1],
     [items |-> <<>>, total_price |-> 0]}

Statuses == {"new", "processed"}

NoData ==
    [parent_id |-> NULL, category_id |-> NULL, name |-> NoText,
     description |-> NoText, price |-> NoPrice]

Init ==
    /\ categories = {}
    /\ products = {}
    /\ orders = {}
    /\ sqlite_sequence = [t \in Tables |-> 0]
    /\ api_products = {}
    /\ api_categories = {}
    /\ pending = {}
    /\ fsm_state = [u \in Users |-> "None"]
    /\ fsm_data = [u \in Users |-> NoData]
    /\ keyboards = [selectparent |-> {}, selectprodcat |-> {},
                    confirm_clear |-> FALSE]
    /\ flow = [u \in Users |-> "none"]
    /\ last = NoOutcome

----------------------------------------------------------------------------
(* The methods of Database: what each does to the tables and the files.    *)

\* A faulty variant: add_category undoing its INSERT when the export did not
\* end well.
DoAddCategoryRolledBack(name, parent_id, fault, resolved) ==
    LET id == LastRowId("categories", categories)
        C == categories \cup {CategoryRow(id, name, parent_id)}
    IN  /\ id <= MaxRowId.categories
        /\ Publish(products, C, fault, resolved)
        /\ IF fault = "none"
           THEN /\ categories' = C
                /\ sqlite_sequence' = [sqlite_sequence EXCEPT !.categories = id]
                /\ UNCHANGED <<products, orders>>
           ELSE UNCHANGED storeVars

\* add_category up to `return cat_id`
DoAddCategory(name, parent_id, fault, resolved) ==
    LET id == LastRowId("categories", categories)
        C == categories \cup {CategoryRow(id, name, parent_id)}
    IN  /\ id <= MaxRowId.categories
        /\ categories' = C
        /\ sqlite_sequence' = [sqlite_sequence EXCEPT !.categories = id]
        /\ Publish(products, C, fault, resolved)
        /\ UNCHANGED <<products, orders>>

\* delete_category up to `return True`
DoDeleteCategory(category_id, fault, resolved) ==
    LET C == CategoriesAfterDelete(categories, category_id)
        P == ProductsAfterCategoryDelete(products, category_id)
    IN  /\ categories' = C
        /\ products' = P
        /\ Publish(P, C, fault, resolved)
        /\ UNCHANGED <<orders, sqlite_sequence>>

\* add_product up to `return prod_id`, for a price sqlite accepts
DoAddProduct(category_id, name, description, price, photo_id, fault, resolved) ==
    LET id == LastRowId("products", products)
        P == products \cup
                 {ProductRow(id, category_id, name, description, price, photo_id)}
    IN  /\ id <= MaxRowId.products
        /\ products' = P
        /\ sqlite_sequence' = [sqlite_sequence EXCEPT !.products = id]
        /\ Publish(P, categories, fault, resolved)
        /\ UNCHANGED <<categories, orders>>

\* A faulty variant: delete_product that also deletes the orders.
DoDeleteProductAndOrders(product_id, fault, resolved) ==
    LET P == ProductsAfterDelete(products, product_id)
    IN  /\ products' = P
        /\ orders' = {}
        /\ Publish(P, categories, fault, resolved)
        /\ UNCHANGED <<categories, sqlite_sequence>>

\* delete_product up to `return True`
DoDeleteProduct(product_id, fault, resolved) ==
    LET P == ProductsAfterDelete(products, product_id)
    IN  /\ products' = P
        /\ Publish(P, categories, fault, resolved)
        /\ UNCHANGED <<categories, orders, sqlite_sequence>>

\* toggle_product_stock after `if not result: return False`
DoToggleProductStock(product_id, fault, resolved) ==
    LET P == ProductsAfterToggle(products, product_id)
    IN  /\ products' = P
        /\ Publish(P, categories, fault, resolved)
        /\ UNCHANGED <<categories, orders, sqlite_sequence>>

\* create_order_with_user up to `return order_id`, for a user_id that is
\* not NULL
DoCreateOrder(user_id, username, first_name, items, total_price) ==
    LET id == LastRowId("orders", orders)
    IN  /\ id <= MaxRowId.orders
        /\ orders' = orders \cup
               {OrderRow(id, user_id, username, first_name, items, total_price)}
        /\ sqlite_sequence' = [sqlite_sequence EXCEPT !.orders = id]
        /\ UNCHANGED <<categories, products>>

\* clear_all_data: the three DELETEs and the reset of sqlite_sequence
DoClearAllData ==
    /\ products' = {}
    /\ categories' = {}
    /\ orders' = {}
    /\ sqlite_sequence' = [t \in Tables |-> 0]

----------------------------------------------------------------------------
(* The methods called directly. *)

add_category(name, parent_id, fault, resolved) ==
    /\ DoAddCategory(name, parent_id, fault, resolved)
    /\ last' = Outcome("add_category", "returned",
                       LastRowId("categories", categories), 1,
                       fault)
    /\ UNCHANGED fsmVars

delete_category(category_id, fault, resolved) ==
    /\ DoDeleteCategory(category_id, fault, resolved)
    /\ last' = Outcome("delete_category", "True", category_id, 1,
                       fault)
    /\ UNCHANGED fsmVars

add_product(category_id, name, description, price, photo_id, fault, resolved) ==
    /\ DoAddProduct(category_id, name, description, price, photo_id, fault,
                    resolved)
    /\ last' = Outcome("add_product", "returned",
                       LastRowId("products", products), 1,
                       fault)
    /\ UNCHANGED fsmVars

delete_product(product_id, fault, resolved) ==
    /\ DoDeleteProduct(product_id, fault, resolved)
    /\ last' = Outcome("delete_product", "True", product_id, 1,
                       fault)
    /\ UNCHANGED fsmVars

toggle_product_stock(product_id, fault, resolved) ==
    IF \E p \in products : p.id = product_id
    THEN /\ DoToggleProductStock(product_id, fault, resolved)
         /\ last' = Outcome("toggle_product_stock",
                 IF ToggleReturn((CHOOSE p \in products' : p.id = product_id).in_stock)
                 THEN "True" ELSE "False",
                 product_id, 1, fault)
         /\ UNCHANGED fsmVars
    ELSE /\ last' = Outcome("toggle_product_stock", "False", product_id, 0,
                            "none")
         /\ UNCHANGED <<storeVars, snapshotVars, fsmVars>>

create_order_with_user(user_id, username, first_name, items, total_price) ==
    /\ UNCHANGED <<snapshotVars, fsmVars>>
    /\ IF user_id = NULL
       THEN /\ last' = Outcome("create_order_with_user", "raised", NULL, 0, "none")
            /\ UNCHANGED storeVars
       ELSE /\ DoCreateOrder(user_id, username, first_name, items, total_price)
            /\ last' = Outcome("create_order_with_user", "returned",
                               LastRowId("orders", orders), 0, "none")

update_order_status(order_id, status) ==
    /\ orders' = OrdersAfterUpdate(orders, order_id, status)
    /\ last' = Outcome("update_order_status", "True", order_id, 0, "none")
    /\ UNCHANGED <<categories, products, sqlite_sequence, snapshotVars, fsmVars>>

clear_all_data ==
    /\ DoClearAllData
    /\ last' = Outcome("clear_all_data", "None", NULL, 0, "none")
    /\ UNCHANGED <<snapshotVars, fsmVars>>

----------------------------------------------------------------------------
(* The handlers of the router.  u is callback.from_user.id or              *)
(* message.from_user.id.  A message is a text or a photo (whose text is    *)
(* None).                                                                  *)

TextMessage(t) == [text |-> t, photo |-> NoPhoto]
PhotoMessages == {[text |-> NoText, photo |-> f] : f \in PhotoIds}

CategoryNameMessages ==
    {TextMessage(t) : t \in CategoryNames \cup {OneLetter}} \cup PhotoMessages
ProductNameMessages ==
    {TextMessage(t) : t \in ProductNames \cup {OneLetter}} \cup PhotoMessages
DescriptionMessages ==
    {TextMessage(t) : t \in {AirX, FourLetters}} \cup PhotoMessages
PriceMessages ==
    {TextMessage(t) : t \in {<<"9", "9", "9", "9">>,
                              <<" ", "9", "9", "9", "9", ",", "0">>,
                              <<"0">>, <<"-", "1">>, <<"9", ",", "9", ",", "9">>,
                              <<"x">>, <<"n", "a", "n">>, <<"i", "n", "f">>}}
        \cup PhotoMessages
PhotoStepMessages == {TextMessage(<<"x">>)} \cup PhotoMessages

\* A faulty variant: state.set_state(None), which keeps the data.
StateReset(u) ==
    /\ fsm_state' = [fsm_state EXCEPT ![u] = "None"]
    /\ fsm_data' = fsm_data
    /\ flow' = [flow EXCEPT ![u] = "none"]

\* await state.clear()
StateClear(u) ==
    /\ fsm_state' = [fsm_state EXCEPT ![u] = "None"]
    /\ fsm_data' = [fsm_data EXCEPT ![u] = NoData]
    /\ flow' = [flow EXCEPT ![u] = "none"]

\* The handler ended with `res` and touched no table, file or session.
Quiet(res) ==
    /\ last' = Outcome("-", res, NULL, 0, "none")
    /\ UNCHANGED <<storeVars, snapshotVars, fsmVars>>

\* if callback.from_user.id != ADMIN_ID: answer "no access" and return
Denied == Quiet("denied")

\* The root category ids get_categories_keyboard(action=...) puts on buttons.
KeyboardIds == {c.id : c \in get_root_categories}

show_main_menu(u) ==
    /\ StateClear(u)
    /\ last' = Outcome("show_main_menu", "menu", NULL, 0, "none")
    /\ UNCHANGED <<storeVars, snapshotVars, keyboards>>

show_admin_panel(u) ==
    /\ StateClear(u)
    /\ last' = Outcome("show_admin_panel",
                       IF u # ADMIN_ID THEN "denied" ELSE "panel", NULL, 0, "none")
    /\ UNCHANGED <<storeVars, snapshotVars, keyboards>>

add_category_start(u) ==
    IF u # ADMIN_ID THEN Denied ELSE Quiet("asked")

add_category_type(u, cat_type) ==
    IF u # ADMIN_ID THEN Denied
    ELSE /\ fsm_state' = [fsm_state EXCEPT ![u] =
                IF cat_type = "root" THEN "AddCategory:waiting_for_name"
                ELSE "AddCategory:selecting_parent"]
         /\ keyboards' = IF cat_type = "root" THEN keyboards
                ELSE [keyboards EXCEPT !.selectparent = @ \cup KeyboardIds]
         /\ flow' = [flow EXCEPT ![u] = cat_type]
         /\ last' = Outcome("add_category_type", "advanced", NULL, 0, "none")
         /\ UNCHANGED <<storeVars, snapshotVars, fsm_data>>

select_parent_category(u, parent_id) ==
    IF u # ADMIN_ID THEN Denied
    ELSE /\ fsm_data' = [fsm_data EXCEPT ![u].parent_id = parent_id]
         /\ fsm_state' = [fsm_state EXCEPT ![u] = "AddCategory:waiting_for_name"]
         /\ flow' = [flow EXCEPT ![u] = "sub"]
         /\ last' = Outcome("select_parent_category", "advanced", NULL, 0, "none")
         /\ UNCHANGED <<storeVars, snapshotVars, keyboards>>

\* A faulty variant: the except branch of a terminal handler clearing the
\* session.
InsertFailedAndCleared(u) ==
    /\ StateClear(u)
    /\ last' = Outcome("-", "error", NULL, 0, "none")
    /\ UNCHANGED <<storeVars, snapshotVars, keyboards>>

\* The except branch of a terminal handler: add_category or add_product has
\* raised, the administrator is sent the error text.
InsertFailed(u) == Quiet("error")

\* fault "insert": the INSERT or the commit raises (the database is locked,
\* the disk is full), add_category logs and raises.
process_category_name(u, message, fault, resolved) ==
    /\ fsm_state[u] = "AddCategory:waiting_for_name"
    /\ IF u # ADMIN_ID THEN Denied
       ELSE IF message.photo # NoPhoto THEN Quiet("exception")
       ELSE IF Len(Strip(message.text)) < 2 THEN Quiet("invalid")
       ELSE IF fault = "insert" THEN InsertFailed(u)
       ELSE /\ DoAddCategory(Strip(message.text), fsm_data[u].parent_id, fault,
                             resolved)
            /\ StateClear(u)
            /\ last' = Outcome("process_category_name", "committed",
                   LastRowId("categories", categories), 1,
                   fault)
            /\ UNCHANGED keyboards

add_product_start(u) ==
    IF u # ADMIN_ID THEN Denied
    ELSE /\ fsm_state' = [fsm_state EXCEPT ![u] = "AddProduct:selecting_category"]
         /\ keyboards' = [keyboards EXCEPT !.selectprodcat = @ \cup KeyboardIds]
         /\ flow' = [flow EXCEPT ![u] = "product"]
         /\ last' = Outcome("add_product_start", "advanced", NULL, 0, "none")
         /\ UNCHANGED <<storeVars, snapshotVars, fsm_data>>

select_product_category(u, category_id) ==
    IF u # ADMIN_ID THEN Denied
    ELSE /\ fsm_data' = [fsm_data EXCEPT ![u].category_id = category_id]
         /\ fsm_state' = [fsm_state EXCEPT ![u] = "AddProduct:waiting_for_name"]
         /\ flow' = [flow EXCEPT ![u] = "product"]
         /\ last' = Outcome("select_product_category", "advanced", NULL, 0, "none")
         /\ UNCHANGED <<storeVars, snapshotVars, keyboards>>

\* A text step that passed validation: update_data(field = value), set_state
Advance(op, u, data, state) ==
    /\ fsm_data' = [fsm_data EXCEPT ![u] = data]
    /\ fsm_state' = [fsm_state EXCEPT ![u] = state]
    /\ last' = Outcome(op, "advanced", NULL, 0, "none")
    /\ UNCHANGED <<storeVars, snapshotVars, keyboards, flow>>

process_product_name(u, message) ==
    /\ fsm_state[u] = "AddProduct:waiting_for_name"
    /\ IF u # ADMIN_ID THEN Denied
       ELSE IF message.photo # NoPhoto THEN Quiet("exception")
       ELSE IF Len(Strip(message.text)) < 2 THEN Quiet("invalid")
       ELSE Advance("process_product_name", u,
                [fsm_data[u] EXCEPT !.name = Strip(message.text)],
                "AddProduct:waiting_for_description")

process_product_description(u, message) ==
    /\ fsm_state[u] = "AddProduct:waiting_for_description"
    /\ IF u # ADMIN_ID THEN Denied
       ELSE IF message.photo # NoPhoto THEN Quiet("exception")
       ELSE IF Len(Strip(message.text)) < 5 THEN Quiet("invalid")
       ELSE Advance("process_product_description", u,
                [fsm_data[u] EXCEPT !.description = Strip(message.text)],
                "AddProduct:waiting_for_price")

\* float(message.text.strip().replace(',', '.'))
PriceOf(text) == ParseFloat(ReplaceComma(Strip(text)))

process_product_price(u, message) ==
    /\ fsm_state[u] = "AddProduct:waiting_for_price"
    /\ IF u # ADMIN_ID THEN Denied
       ELSE IF message.photo # NoPhoto THEN Quiet("exception")
       ELSE IF PriceOf(message.text) = ValueError
               \/ NotPositive(PriceOf(message.text))
            THEN Quiet("invalid")
       ELSE Advance("process_product_price", u,
                [fsm_data[u] EXCEPT !.price = PriceOf(message.text)],
                "AddProduct:waiting_for_photo")

process_product_photo(u, message, fault, resolved) ==
    /\ fsm_state[u] = "AddProduct:waiting_for_photo"
    /\ LET data == fsm_data[u]
       IN  IF u # ADMIN_ID THEN Denied
           ELSE IF \/ data.category_id = NULL
                   \/ data.name = NoText
                   \/ data.description = NoText
                   \/ data.price = NoPrice
                   \/ IsSqlNull(data.price)
                   \/ fault = "insert"
                THEN InsertFailed(u)
           ELSE /\ DoAddProduct(data.category_id, data.name, data.description,
                                data.price, message.photo, fault, resolved)
                /\ StateClear(u)
                /\ last' = Outcome("process_product_photo", "committed",
                       LastRowId("products", products), 1,
                       fault)
                /\ UNCHANGED keyboards

\* for order in orders: db.update_order_status(order['id'], 'processed')
RECURSIVE OrdersAfterUpdates(_, _, _)
OrdersAfterUpdates(O, ids, status) ==
    IF ids = {} THEN O
    ELSE LET id == CHOOSE i \in ids : TRUE
         IN  OrdersAfterUpdates(OrdersAfterUpdate(O, id, status), ids \ {id},
                                status)

\* A faulty variant: the handler without its check of the sender.
ProcessAllOrdersUnchecked(u) ==
    /\ orders' = OrdersAfterUpdates(orders, {o.id : o \in get_new_orders},
                                    "processed")
    /\ last' = Outcome("process_all_orders", "processed",
                       Cardinality(get_new_orders), 0, "none")
    /\ UNCHANGED <<categories, products, sqlite_sequence, snapshotVars,
                   fsmVars>>

process_all_orders(u) ==
    IF u # ADMIN_ID THEN Denied
    ELSE /\ orders' = OrdersAfterUpdates(orders, {o.id : o \in get_new_orders},
                                         "processed")
         /\ last' = Outcome("process_all_orders", "processed",
                            Cardinality(get_new_orders), 0, "none")
         /\ UNCHANGED <<categories, products, sqlite_sequence, snapshotVars,
                        fsmVars>>

\* A faulty variant: SELECT ... FROM orders without WHERE user_id = ?
GetOrdersOfAnyUser(O, user_id) ==
    {Without(o, {"user_id", "username", "first_name"}) : o \in O}

\* SELECT id, items, total_price, status, created_at FROM orders
\* WHERE user_id = ?, over the table O
get_user_orders(O, user_id) ==
    {Without(o, {"user_id", "username", "first_name"}) :
        o \in {x \in O : x.user_id = user_id}}

\* The handlers that list orders change nothing; last.id is the number of
\* orders in the answer.
Listed(op, res, rows) ==
    /\ last' = Outcome(op, res, Cardinality(rows), 0, "none")
    /\ UNCHANGED <<storeVars, snapshotVars, fsmVars>>

\* /orders: the administrator is shown the new orders, anyone else the
\* orders of get_user_orders(message.from_user.id)
cmd_orders(u) ==
    IF u = ADMIN_ID THEN Listed("cmd_orders", "new", get_new_orders)
    ELSE Listed("cmd_orders", "own", get_user_orders(orders, u))

\* The my_orders callback
show_my_orders(u) == Listed("show_my_orders", "own", get_user_orders(orders, u))

\* A faulty variant: the clear_all_data callback clearing at once.
ClearWithoutConfirmation(u) ==
    IF u # ADMIN_ID THEN Denied
    ELSE /\ DoClearAllData
         /\ last' = Outcome("-", "asked", NULL, 0, "none")
         /\ UNCHANGED <<snapshotVars, fsmVars>>

\* The clear_all_data callback: it only asks for the confirmation, with a
\* keyboard that carries the confirm_clear button.
clear_all_data_request(u) ==
    IF u # ADMIN_ID THEN Denied
    ELSE /\ keyboards' = [keyboards EXCEPT !.confirm_clear = TRUE]
         /\ last' = Outcome("-", "asked", NULL, 0, "none")
         /\ UNCHANGED <<storeVars, snapshotVars, fsm_state, fsm_data, flow>>

confirm_clear(u) ==
    IF u # ADMIN_ID THEN Denied
    ELSE /\ DoClearAllData
         /\ last' = Outcome("confirm_clear", "cleared", NULL, 0, "none")
         /\ UNCHANGED <<snapshotVars, fsmVars>>

\* The JSON bodies POSTed to /api/create_order.  A body without the identity
\* fields has user_id None and the defaults of data.get for the names.
Payloads ==
    {[type |-> t, user_id |-> u, items |-> b.items,
      total_price |-> b.total_price] :
        t \in {"order", "other"}, u \in {NULL, Stranger}, b \in Baskets}

\* A faulty variant: the order is inserted only once the notifications went
\* through.
CreateOrderAfterNotifying(data, notified) ==
    /\ UNCHANGED <<snapshotVars, fsmVars>>
    /\ IF data.user_id = NULL \/ ~notified
       THEN /\ last' = Outcome("create_order_api", "error", NULL, 0,
                               IF data.user_id = NULL THEN "none"
                               ELSE "send_message")
            /\ UNCHANGED storeVars
       ELSE /\ DoCreateOrder(data.user_id, "buyer", "Bob", data.items,
                             data.total_price)
            /\ last' = Outcome("create_order_api", "success",
                               LastRowId("orders", orders), 0, "none")

\* notified: whether every bot.send_message of the request went through.
create_order_api(data, notified) ==
    /\ UNCHANGED <<snapshotVars, fsmVars>>
    /\ IF data.user_id = NULL
       THEN /\ last' = Outcome("create_order_api", "error", NULL, 0, "none")
            /\ UNCHANGED storeVars
       ELSE /\ DoCreateOrder(data.user_id, "buyer", "Bob", data.items,
                             data.total_price)
            /\ last' = Outcome("create_order_api",
                   IF notified THEN "success" ELSE "error",
                   IF notified THEN LastRowId("orders", orders) ELSE NULL,
                   0, IF notified THEN "none" ELSE "send_message")

----------------------------------------------------------------------------
(* The specifications. *)

\* The add-category wizard.
CategoryWizard ==
    \/ \E u \in Users : add_category_start(u)
    \/ \E u \in Users, t \in {"root", "sub"} : add_category_type(u, t)
    \/ \E u \in Users, id \in keyboards.selectparent :
          select_parent_category(u, id)
    \/ \E u \in Users, m \in CategoryNameMessages, f \in BotFaults,
          r \in SUBSET PhotoIds : process_category_name(u, m, f, r)

\* The add-product wizard.
ProductWizard ==
    \/ \E u \in Users : add_product_start(u)
    \/ \E u \in Users, id \in keyboards.selectprodcat :
          select_product_category(u, id)
    \/ \E u \in Users, m \in ProductNameMessages : process_product_name(u, m)
    \/ \E u \in Users, m \in DescriptionMessages :
          process_product_description(u, m)
    \/ \E u \in Users, m \in PriceMessages : process_product_price(u, m)
    \/ \E u \in Users, m \in PhotoStepMessages, f \in BotFaults,
          r \in SUBSET PhotoIds : process_product_photo(u, m, f, r)

\* The menus (the cancel button is the admin_panel callback) and the reset.
Menus ==
    \/ \E u \in Users : show_main_menu(u)
    \/ \E u \in Users : show_admin_panel(u)

Reset ==
    \/ \E u \in Users : clear_all_data_request(u)
    \/ \E u \in Users : keyboards.confirm_clear /\ confirm_clear(u)

\* Order intake and the bulk processing of orders.
OrderEvents ==
    \/ \E d \in Payloads, n \in BOOLEAN : create_order_api(d, n)
    \/ \E u \in Users : process_all_orders(u)

Next == CategoryWizard \/ ProductWizard \/ Menus \/ Reset \/ OrderEvents

\* The running bot.
Spec == Init /\ [][Next]_vars

\* The bot with no order traffic and no add-product wizard.
SpecCategories == Init /\ [][CategoryWizard \/ Menus \/ Reset]_vars

\* The two wizards run by the administrator, never cancelled or reset.
SpecWizards == Init /\ [][CategoryWizard \/ ProductWizard]_vars

\* The bot with no administration of the catalog.
SpecOrders == Init /\ [][OrderEvents \/ Reset]_vars

\* The catalog methods of Database, called directly; the exports fail as
\* `faults` allows, the products carry a photo of `photos`.
CatalogCalls(faults, photos) ==
    \/ \E p \in {NULL} \cup 1..MaxCategoryId, f \in faults :
          add_category(Shoes, p, f, {})
    \/ \E c \in 1..MaxCategoryId, f \in faults, r \in SUBSET (photos \ {NoPhoto}) :
          delete_category(c, f, r)
    \/ \E c \in 1..MaxCategoryId, ph \in photos, f \in faults,
          r \in SUBSET (photos \ {NoPhoto}) :
          add_product(c, AirX, AirX, Price9999, ph, f, r)
    \/ \E p \in 1..MaxProductId + 1, f \in faults,
          r \in SUBSET (photos \ {NoPhoto}) : delete_product(p, f, r)
    \/ \E p \in 1..MaxProductId + 1, f \in faults,
          r \in SUBSET (photos \ {NoPhoto}) : toggle_product_stock(p, f, r)
    \/ clear_all_data

\* Direct calls whose exports all succeed, over products without a photo.
SpecCatalog == Init /\ [][CatalogCalls({"none"}, {NoPhoto})]_vars

\* Direct calls whose exports may fail, over products without a photo.
SpecDb == Init /\ [][CatalogCalls(ExportFaults, {NoPhoto})]_vars

\* The two ways of adding a product: the wizard, and add_product called
\* directly, over categories added by direct calls.
ProductCalls ==
    \/ \E p \in {NULL} \cup 1..MaxCategoryId : add_category(Shoes, p, "none", {})
    \/ \E c \in 1..MaxCategoryId, d \in DirectProducts :
          add_product(c, AirX, d.description, d.price, NoPhoto, "none", {})

SpecProducts == Init /\ [][ProductWizard \/ Menus \/ ProductCalls]_vars

\* The order methods of Database, called directly, and the handler that
\* loops over update_order_status.
OrderCalls ==
    \/ \E u \in {NULL, Stranger}, b \in Baskets :
          create_order_with_user(u, "buyer", "Bob", b.items, b.total_price)
    \/ \E o \in 1..MaxOrderId + 1, st \in Statuses : update_order_status(o, st)
    \/ \E u \in Users : process_all_orders(u)
    \/ clear_all_data

SpecOrdersDb == Init /\ [][OrderCalls]_vars

\* Every handler of the bot.  The administrator walks through both wizards,
\* each step fed the one input that lets it through, and cancels; anyone
\* tries every entry point; one order arrives and is delivered.
StepEvents ==
    \/ \E u \in Users : show_admin_panel(u)
    \/ show_main_menu(Stranger)
    \/ add_category_start(Stranger)
    \/ \E u \in Users, t \in {"root", "sub"} : add_category_type(u, t)
    \/ \E u \in Users, id \in keyboards.selectparent :
          select_parent_category(u, id)
    \/ \E u \in Users : process_category_name(u, TextMessage(Shoes), "none", {})
    \/ \E u \in Users : add_product_start(u)
    \/ \E u \in Users, id \in keyboards.selectprodcat :
          select_product_category(u, id)
    \/ \E u \in Users : process_product_name(u, TextMessage(AirX))
    \/ \E u \in Users : process_product_description(u, TextMessage(AirX))
    \/ \E u \in Users : process_product_price(u, TextMessage(<<"9", "9", "9", "9">>))
    \/ \E u \in Users : process_product_photo(u, TextMessage(<<"x">>), "none", {})
    \/ process_all_orders(Stranger)
    \/ clear_all_data_request(Stranger)
    \/ confirm_clear(Stranger)
    \/ create_order_api([type |-> "order", user_id |-> Stranger,
                         items |-> TwoItems, total_price |-> 250], TRUE)

SpecSteps == Init /\ [][StepEvents]_vars

----------------------------------------------------------------------------
(* Handlers that overlap.  Polling starts one task per update, and a task  *)
(* gives way to the others where it awaits the network.  A mutating method *)
(* commits and calls export_to_json without giving way; export_to_json     *)
(* reads both tables, then awaits bot.get_file once for every row it read  *)
(* with a photo_id, then writes both files without giving way.  An export  *)
(* that read no photo_id therefore runs to its end at once; the others     *)
(* stop after the reads and write what they read when the last answer of   *)
(* get_file has come.                                                      *)

\* export_to_json awaits bot.get_file for some row of its reads
Suspends(P, C) == \E r \in get_all_products(P, C, TRUE) : r.photo_id # NoPhoto

\* What a mutating method returns once its export has ended.
TaskResult(op) ==
    IF op \in {"add_category", "add_product"} THEN "returned" ELSE "True"

\* export_to_json, called by method op over the tables P and C it has just
\* committed, up to its end or to its suspension.  Two suspended exports of
\* the same method that read the same rows write the same files, and are
\* kept as one.
StartExport(op, id, P, C) ==
    IF Suspends(P, C)
    THEN /\ Cardinality(pending) < MaxTasks
         /\ pending' = pending \cup
                {[op |-> op, id |-> id,
                  rows |-> get_all_products(P, C, TRUE),
                  cats |-> get_all_categories(C, TRUE)]}
         /\ UNCHANGED <<api_products, api_categories>>
         /\ last' = Outcome(op, "suspended", id, 1, "none")
    ELSE /\ Publish(P, C, "none", {})
         /\ last' = Outcome(op, TaskResult(op), id, 1, "none")

add_category_task(name, parent_id) ==
    LET id == LastRowId("categories", categories)
        C == categories \cup {CategoryRow(id, name, parent_id)}
    IN  /\ id <= MaxRowId.categories
        /\ categories' = C
        /\ sqlite_sequence' = [sqlite_sequence EXCEPT !.categories = id]
        /\ StartExport("add_category", id, products, C)
        /\ UNCHANGED <<products, orders, fsmVars>>

delete_category_task(category_id) ==
    LET C == CategoriesAfterDelete(categories, category_id)
        P == ProductsAfterCategoryDelete(products, category_id)
    IN  /\ categories' = C
        /\ products' = P
        /\ StartExport("delete_category", category_id, P, C)
        /\ UNCHANGED <<orders, sqlite_sequence, fsmVars>>

add_product_task(category_id, name, description, price, photo_id) ==
    LET id == LastRowId("products", products)
        P == products \cup
                 {ProductRow(id, category_id, name, description, price, photo_id)}
    IN  /\ id <= MaxRowId.products
        /\ products' = P
        /\ sqlite_sequence' = [sqlite_sequence EXCEPT !.products = id]
        /\ StartExport("add_product", id, P, categories)
        /\ UNCHANGED <<categories, orders, fsmVars>>

delete_product_task(product_id) ==
    LET P == ProductsAfterDelete(products, product_id)
    IN  /\ products' = P
        /\ StartExport("delete_product", product_id, P, categories)
        /\ UNCHANGED <<categories, orders, sqlite_sequence, fsmVars>>

toggle_product_stock_task(product_id) ==
    IF \E p \in products : p.id = product_id
    THEN LET P == ProductsAfterToggle(products, product_id)
         IN  /\ products' = P
             /\ StartExport("toggle_product_stock", product_id, P, categories)
             /\ UNCHANGED <<categories, orders, sqlite_sequence, fsmVars>>
    ELSE /\ last' = Outcome("toggle_product_stock", "False", product_id, 0,
                            "none")
         /\ UNCHANGED <<storeVars, snapshotVars, fsmVars>>

\* The end of a suspended export e: get_file has answered for the photo ids
\* of `resolved` and raised for the others; both files are written with the
\* rows read before the suspension, and the method returns.
export_to_json_resumed(e, resolved) ==
    /\ e \in pending
    /\ e.op \in {"add_category", "delete_category", "add_product",
                "delete_product", "toggle_product_stock"}
    /\ pending' = pending \ {e}
    /\ api_products' = {ExportedProduct(r, resolved) : r \in e.rows}
    /\ api_categories' = e.cats
    /\ last' = Outcome(e.op, TaskResult(e.op), e.id, 1, "none")
    /\ UNCHANGED <<storeVars, fsmVars>>

OverlappingCalls ==
    \/ \E p \in {NULL} \cup 1..MaxCategoryId : add_category_task(Shoes, p)
    \/ \E c \in 1..MaxCategoryId : delete_category_task(c)
    \/ \E c \in 1..MaxCategoryId, ph \in Photos :
          add_product_task(c, AirX, AirX, Price9999, ph)
    \/ \E p \in 1..MaxProductId : delete_product_task(p)
    \/ \E p \in 1..MaxProductId + 1 : toggle_product_stock_task(p)
    \/ \E e \in pending, r \in SUBSET PhotoIds : export_to_json_resumed(e, r)

\* The catalog methods of Database called by overlapping handlers; every
\* export reads and writes without fault.
SpecOverlap == Init /\ [][OverlappingCalls]_vars

\* The terminal handlers of the wizards, which give way in `await
\* message.answer(...)` after the insert and the export, and call
\* state.clear() only when the answer has been sent.  No product of these
\* handlers has a photo, so their exports run to the end at once.

\* A terminal handler `op` that inserted row `id`, suspended in
\* message.answer; it has nothing left to write.
AwaitingAnswer(op, id) == [op |-> op, id |-> id, rows |-> {}, cats |-> {}]

\* process_category_name up to `await message.answer(...)`
process_category_name_task(message) ==
    LET id == LastRowId("categories", categories)
        C == categories \cup
                 {CategoryRow(id, Strip(message.text),
                              fsm_data[ADMIN_ID].parent_id)}
    IN  /\ fsm_state[ADMIN_ID] = "AddCategory:waiting_for_name"
        /\ message.photo = NoPhoto
        /\ Len(Strip(message.text)) >= 2
        /\ id <= MaxRowId.categories
        /\ Cardinality(pending) < MaxTasks
        /\ categories' = C
        /\ sqlite_sequence' = [sqlite_sequence EXCEPT !.categories = id]
        /\ api_products' = Export(products, C, "none", {}).products
        /\ api_categories' = Export(products, C, "none", {}).categories
        /\ pending' = pending \cup {AwaitingAnswer("process_category_name", id)}
        /\ last' = Outcome("process_category_name", "suspended", id, 1, "none")
        /\ UNCHANGED <<products, orders, fsmVars>>

\* process_product_photo up to `await message.answer(...)`, for a session
\* that holds every field
process_product_photo_task(message) ==
    LET data == fsm_data[ADMIN_ID]
        id == LastRowId("products", products)
        P == products \cup
                 {ProductRow(id, data.category_id, data.name, data.description,
                             data.price, message.photo)}
    IN  /\ fsm_state[ADMIN_ID] = "AddProduct:waiting_for_photo"
        /\ message.photo = NoPhoto
        /\ data.category_id # NULL /\ data.name # NoText
        /\ data.description # NoText /\ data.price # NoPrice
        /\ ~IsSqlNull(data.price)
        /\ id <= MaxRowId.products
        /\ Cardinality(pending) < MaxTasks
        /\ products' = P
        /\ sqlite_sequence' = [sqlite_sequence EXCEPT !.products = id]
        /\ api_products' = Export(P, categories, "none", {}).products
        /\ api_categories' = Export(P, categories, "none", {}).categories
        /\ pending' = pending \cup {AwaitingAnswer("process_product_photo", id)}
        /\ last' = Outcome("process_product_photo", "suspended", id, 1, "none")
        /\ UNCHANGED <<categories, orders, fsmVars>>

\* The answer of the suspended terminal handler e has been sent:
\* await state.clear(), and the handler returns.
state_clear_resumed(e) ==
    /\ e \in pending
    /\ e.op \in {"process_category_name", "process_product_photo"}
    /\ pending' = pending \ {e}
    /\ api_products' = api_products
    /\ api_categories' = api_categories
    /\ StateClear(ADMIN_ID)
    /\ last' = Outcome(e.op, "committed", e.id, 0, "none")
    /\ UNCHANGED <<storeVars, keyboards>>

\* The two wizards run by the administrator, whose messages are handled as
\* they come, also while a terminal handler is suspended.
CommitEvents ==
    \/ \E t \in {"root", "sub"} : add_category_type(ADMIN_ID, t)
    \/ \E id \in keyboards.selectparent : select_parent_category(ADMIN_ID, id)
    \/ \E t \in CategoryNames : process_category_name_task(TextMessage(t))
    \/ add_product_start(ADMIN_ID)
    \/ \E id \in keyboards.selectprodcat : select_product_category(ADMIN_ID, id)
    \/ process_product_name(ADMIN_ID, TextMessage(AirX))
    \/ process_product_description(ADMIN_ID, TextMessage(AirX))
    \/ process_product_price(ADMIN_ID, TextMessage(<<"9", "9", "9", "9">>))
    \/ process_product_photo_task(TextMessage(<<"x">>))
    \/ \E e \in pending : state_clear_resumed(e)

SpecCommits == Init /\ [][CommitEvents]_vars

\* The two wizards run by the administrator over a store whose INSERTs may
\* raise.
InsertEvents ==
    \/ \E t \in {"root", "sub"} : add_category_type(ADMIN_ID, t)
    \/ \E id \in keyboards.selectparent : select_parent_category(ADMIN_ID, id)
    \/ \E f \in InsertFaults :
          process_category_name(ADMIN_ID, TextMessage(Shoes), f, {})
    \/ add_product_start(ADMIN_ID)
    \/ \E id \in keyboards.selectprodcat : select_product_category(ADMIN_ID, id)
    \/ process_product_name(ADMIN_ID, TextMessage(AirX))
    \/ process_product_description(ADMIN_ID, TextMessage(AirX))
    \/ \E t \in {<<"9", "9", "9", "9">>, <<"n", "a", "n">>} :
          process_product_price(ADMIN_ID, TextMessage(t))
    \/ \E m \in PhotoStepMessages, f \in InsertFaults :
          process_product_photo(ADMIN_ID, m, f, {})

SpecInserts == Init /\ [][InsertEvents]_vars

\* export_to_json on its own, over stores of up to MaxProductId + 1 products
\* with and without photos, some of which get_file does not answer for.

StoredPhotoIds == {"file1", "file2"}

StoredProducts ==
    {ProductRow(i, 1, AirX, AirX, Price9999, ph) :
        i \in 1..MaxProductId + 1, ph \in {NoPhoto} \cup StoredPhotoIds}

\* A store some run of the bot has left, whose files have not been written.
InitStored ==
    /\ categories \in {{}, {CategoryRow(1, Shoes, NULL)}}
    /\ products \in {P \in SUBSET StoredProducts :
                        \A p, q \in P : p.id = q.id => p = q}
    /\ orders = {}
    /\ sqlite_sequence =
           [t \in Tables |->
               IF t = "categories" THEN Max({0} \cup {c.id : c \in categories})
               ELSE IF t = "products" THEN Max({0} \cup {p.id : p \in products})
               ELSE 0]
    /\ api_products = {}
    /\ api_categories = {}
    /\ pending = {}
    /\ fsm_state = [u \in Users |-> "None"]
    /\ fsm_data = [u \in Users |-> NoData]
    /\ keyboards = [selectparent |-> {}, selectprodcat |-> {},
                    confirm_clear |-> FALSE]
    /\ flow = [u \in Users |-> "none"]
    /\ last = NoOutcome

\* await db.export_to_json(), run to its end
export_to_json(fault, resolved) ==
    /\ Publish(products, categories, fault, resolved)
    /\ last' = Outcome("export_to_json",
                       IF Export(products, categories, fault, resolved).result
                       THEN "True" ELSE "False",
                       NULL, 1, fault)
    /\ UNCHANGED <<storeVars, fsmVars>>

SpecExport ==
    InitStored
    /\ [][\E f \in ExportFaults, r \in SUBSET StoredPhotoIds :
              export_to_json(f, r)]_vars

\* How a read of the store can fail under a read endpoint: sqlite3.connect
\* raises, or the SELECT raises on the open connection.
ReadFaults == {"none", "connect", "execute"}

\* The reader leaves by an exception: when get_connection raises, conn is
\* unbound, the except clause returns [] and the conn.close() of the finally
\* clause raises in its place.  A SELECT that raises is caught: [] is returned.
ReaderRaises(fault) == fault = "connect"

\* The product of the products endpoint: the row with photo_url added.
ApiProduct(row, resolved) ==
    ("photo_url" :>
        (IF row.photo_id # NoPhoto /\ row.photo_id \in resolved
         THEN PhotoUrl(row.photo_id)
         ELSE NoUrl)) @@ row

\* web.json_response(body), or the status 500 of the except clause; id is
\* the number of rows of the body.
Answered(op, raised, body, fault) ==
    /\ last' = IF raised THEN Outcome(op, "500", 0, 0, fault)
                ELSE Outcome(op, "200", Cardinality(body), 0, fault)
    /\ UNCHANGED <<storeVars, snapshotVars, fsmVars>>

\* GET /api/products
get_products_api(fault, resolved) ==
    LET rows == get_all_products(products, categories, fault = "none")
    IN  Answered("get_products_api", ReaderRaises(fault),
                 {ApiProduct(r, resolved) : r \in rows}, fault)

\* GET /api/categories
get_categories_api(fault) ==
    Answered("get_categories_api", ReaderRaises(fault),
             get_all_categories(categories, fault = "none"), fault)

\* The read endpoints over a store some run of the bot has left.
SpecReadApi ==
    InitStored
    /\ [][\/ \E f \in ReadFaults, r \in SUBSET StoredPhotoIds :
                get_products_api(f, r)
          \/ \E f \in ReadFaults : get_categories_api(f)]_vars

\* The full reset over a store filled by direct calls and order intake.
ResetEvents ==
    \/ \E p \in {NULL} \cup 1..MaxCategoryId : add_category(Shoes, p, "none", {})
    \/ \E c \in 1..MaxCategoryId :
          add_product(c, AirX, AirX, Price9999, NoPhoto, "none", {})
    \/ \E c \in 1..MaxCategoryId : delete_category(c, "none", {})
    \/ \E p \in 1..MaxProductId : delete_product(p, "none", {})
    \/ create_order_api([type |-> "order", user_id |-> Stranger,
                         items |-> TwoItems, total_price |-> 250], TRUE)
    \/ Reset

SpecReset == Init /\ [][ResetEvents]_vars

\* The catalog operations: the five mutating methods called directly, and
\* the steps of the two wizards taken by the administrator.
CatalogEvents ==
    \/ \E p \in {NULL} \cup 1..MaxCategoryId : add_category(Shoes, p, "none", {})
    \/ \E c \in 1..MaxCategoryId : delete_category(c, "none", {})
    \/ \E c \in 1..MaxCategoryId :
          add_product(c, AirX, AirX, Price9999, NoPhoto, "none", {})
    \/ \E p \in 1..MaxProductId : delete_product(p, "none", {})
    \/ \E p \in 1..MaxProductId : toggle_product_stock(p, "none", {})
    \/ add_category_type(ADMIN_ID, "root")
    \/ process_category_name(ADMIN_ID, TextMessage(Shoes), "none", {})
    \/ add_product_start(ADMIN_ID)
    \/ \E id \in keyboards.selectprodcat : select_product_category(ADMIN_ID, id)
    \/ process_product_name(ADMIN_ID, TextMessage(AirX))
    \/ process_product_description(ADMIN_ID, TextMessage(AirX))
    \/ process_product_price(ADMIN_ID, TextMessage(<<"9", "9", "9", "9">>))
    \/ process_product_photo(ADMIN_ID, TextMessage(<<"x">>), "none", {})

\* The catalog operations over a store that takes orders.
SpecFrame ==
    Init
    /\ [][\/ CatalogEvents
          \/ \E n \in BOOLEAN :
                create_order_api([type |-> "order", user_id |-> Stranger,
                                  items |-> TwoItems, total_price |-> 250], n)
          \/ process_all_orders(ADMIN_ID)]_vars

\* Orders of the administrator and of another user, processed in bulk and
\* listed by /orders and my_orders.
ListingEvents ==
    \/ \E u \in Users, b \in Baskets :
          create_order_with_user(u, "buyer", "Bob", b.items, b.total_price)
    \/ process_all_orders(ADMIN_ID)
    \/ \E u \in Users : cmd_orders(u)
    \/ \E u \in Users : show_my_orders(u)

SpecListing == Init /\ [][ListingEvents]_vars

\* The two wizards run by the administrator, and the full reset.
SpecWizardsReset == Init /\ [][InsertEvents \/ Reset]_vars

----------------------------------------------------------------------------
(* The properties. *)

\* The ids of c and of every category of C whose parent chain leads to c.
RECURSIVE Subtree(_, _)
Subtree(C, S) ==
    LET T == S \cup {x.id : x \in {y \in C : y.parent_id \in S}}
    IN  IF T = S THEN S ELSE Subtree(C, T)

HasChildren(c) ==
    /\ \E x \in categories : x.id = c
    /\ \E x \in categories : x.parent_id = c /\ x.id # c

\* C1: for every category c that has child categories, after
\* delete_category(c) returns True the store holds neither c, nor a category
\* whose parent chain leads to c, nor a product bound to c or to one of those.
C1_DeleteCascades ==
    [][\A c \in 1..MaxCategoryId :
          (HasChildren(c) /\ last'.op = "delete_category" /\ last'.id = c
              /\ last'.res = "True")
          => /\ \A x \in categories' : x.id \notin Subtree(categories', {c})
             /\ \A p \in products' :
                    p.category_id \notin Subtree(categories', {c})]_vars

Mutations ==
    {"add_category", "delete_category", "add_product", "delete_product",
     "toggle_product_stock"}

Succeeded == last.op \in Mutations /\ last.res \in {"returned", "True"}

\* The published lists hold exactly the categories and the products of the
\* store: the same ids, as many, the same in_stock values.
SnapshotMatchesStore ==
    /\ {c.id : c \in api_categories} = {c.id : c \in categories}
    /\ Cardinality(api_categories) = Cardinality(categories)
    /\ {<<p.id, p.in_stock>> : p \in api_products}
           = {<<p.id, p.in_stock>> : p \in products}
    /\ Cardinality(api_products) = Cardinality(products)

C3_RestartDiscards ==
    [][(/\ flow[ADMIN_ID] = "root"
        /\ last'.op = "process_category_name"
        /\ last'.res = "committed")
       => \A c \in categories' : c.id = last'.id => c.parent_id = NULL]_vars

\* What the validation of the wizard lets through: a description of at
\* least 5 characters and a price that is a number above 0.
ValidProduct(p) ==
    /\ Len(p.description) >= 5
    /\ \/ p.price.kind = "num" /\ p.price.v > 0
       \/ p.price.kind = "inf"

\* C4 as stated: no product is inserted and published with a description
\* shorter than 5 characters or a price that is no number or is <= 0, by the
\* wizard or by a direct call of add_product.
C4_Validated_Original ==
    (last.op \in {"add_product", "process_product_photo"}
        /\ last.res \in {"returned", "committed"})
    => \A p \in products : p.id = last.id => ValidProduct(p)

\* float() of a price text as the wizard normalises it.
Normalised(text) == ParseFloat(ReplaceComma(Strip(text)))

\* The messages of the description and price steps that carry a description
\* shorter than 5 characters, a price that is no number, or a price <= 0.
TurnedDown(m) ==
    /\ m.photo = NoPhoto
    /\ \/ /\ process_product_description(ADMIN_ID, m)
          /\ Len(Strip(m.text)) < 5
       \/ /\ process_product_price(ADMIN_ID, m)
          /\ \/ Normalised(m.text).kind \in {"ValueError", "-inf"}
             \/ Normalised(m.text).kind = "num" /\ Normalised(m.text).v <= 0

\* C4, amended: the wizard never inserts a product with a description
\* shorter than 5 characters or a price that is no number or is <= 0, and a
\* description or price it turns down changes no table, no file and no
\* session; add_product called directly inserts and publishes what it is
\* given.
C4_Validated ==
    [][/\ (last'.op = "process_product_photo" /\ last'.res = "committed")
          => \A p \in products' : p.id = last'.id => ValidProduct(p)
       /\ \A m \in DescriptionMessages \cup PriceMessages :
             TurnedDown(m)
             => /\ UNCHANGED <<storeVars, snapshotVars, fsmVars>>
                /\ last'.exports = 0
       /\ \A c \in 1..MaxCategoryId, d \in DirectProducts :
             add_product(c, AirX, d.description, d.price, NoPhoto, "none", {})
             => /\ last'.exports = 1
                /\ \E p \in products' \ products :
                      p.description = d.description /\ p.price = d.price]_vars

\* The wizard has just turned a price down, with a product already inserted
\* by a direct call.
C4_Witness ==
    /\ last.res = "invalid"
    /\ fsm_state[ADMIN_ID] = "AddProduct:waiting_for_price"
    /\ products # {}

C6_ToggleReturn_Original ==
    last.op = "toggle_product_stock"
    => \A p \in products :
          p.id = last.id => (last.res = "True" <=> p.in_stock = 1)

\* C6, amended: toggle_product_stock returns True for every product it
\* finds, whether the product is in stock or out of stock afterwards, and
\* False for an id the store does not hold.
C6_ToggleReturn ==
    last.op = "toggle_product_stock"
    => (last.res = "True" <=> \E p \in products : p.id = last.id)

\* A toggle has just switched a product off and returned True.
C6_Witness ==
    /\ last.op = "toggle_product_stock"
    /\ last.res = "True"
    /\ \E p \in products : p.id = last.id /\ p.in_stock = 0


\* C7: an order is stored with the total_price and the items of its payload,
\* whatever the sum of its lines, and no later event of the bot changes the
\* total_price or the items of an order that exists.
C7_TotalVerbatim ==
    [][/\ \A d \in Payloads, n \in BOOLEAN :
             (create_order_api(d, n) /\ d.user_id # NULL)
             => \E o \in orders' \ orders :
                   /\ o.total_price = d.total_price
                   /\ o.items = [json |-> d.items]
       /\ \A o \in orders, o2 \in orders' :
             o2.id = o.id
             => o2.total_price = o.total_price /\ o2.items = o.items]_vars

\* An order whose total is not the sum of its lines has been processed.
C7_Witness ==
    /\ last.op = "process_all_orders"
    /\ \E o \in orders :
          /\ o.status = "processed"
          /\ o.items = [json |-> TwoItems]
          /\ o.total_price = 1

\* The table O with the orders of `ids` marked processed and nothing else
\* changed.
MarkedProcessed(O, ids) ==
    {IF o.id \in ids THEN [o EXCEPT !.status = "processed"] ELSE o : o \in O}

\* C8: update_order_status(id, 'processed') returns True and leaves the order
\* processed and every other field of every order as it was, and a second
\* call changes nothing; so does process_all_orders.
C8_ProcessedIdempotent ==
    [][/\ \A id \in 1..MaxOrderId :
             (update_order_status(id, "processed")
                 /\ \E o \in orders : o.id = id)
             => /\ last'.res = "True"
                /\ orders' = MarkedProcessed(orders, {id})
                /\ OrdersAfterUpdate(orders', id, "processed") = orders'
       /\ process_all_orders(ADMIN_ID)
          => /\ last'.res = "processed"
             /\ orders' = MarkedProcessed(orders, {o.id : o \in get_new_orders})
             /\ OrdersAfterUpdates(orders',
                    {o.id : o \in {x \in orders' : x.status = "new"}},
                    "processed") = orders']_vars

\* update_order_status has just run and each of the two orders of the store
\* is processed.
C8_Witness ==
    /\ last.op = "update_order_status"
    /\ Cardinality(orders) = 2
    /\ \A o \in orders : o.status = "processed"

\* C9: an order that is processed is never new again while it exists, and
\* no order has a status other than new or processed.
C9_StatusOneWay ==
    [][/\ \A o \in orders, o2 \in orders' :
             (o2.id = o.id /\ o.status = "processed") => o2.status = "processed"
       /\ \A o \in orders' : o.status \in {"new", "processed"}]_vars

\* An order arrived after the earlier one had been processed.
C9_Witness ==
    /\ last.op = "create_order_api"
    /\ \E o \in orders : o.status = "processed"
    /\ \E o \in orders : o.status = "new"

\* The administrator has added root category Shoes, subcategory Nike under
\* it and then one product priced 9999 without a photo.
ScenarioDone ==
    /\ categories = {CategoryRow(1, Shoes, NULL), CategoryRow(2, Nike, 1)}
    /\ last.op = "process_product_photo"
    /\ last.res = "committed"
    /\ \E p \in products :
          /\ products = {p}
          /\ p.id = last.id
          /\ p.price = Price9999
          /\ p.photo_id = NoPhoto

\* C10: after that scenario the snapshot holds one root category, one
\* subcategory under it, and one product bound to the subcategory, with
\* photo_url null and in_stock true.
C10_Scenario ==
    ScenarioDone
    => /\ api_categories = {CategoryRow(1, Shoes, NULL), CategoryRow(2, Nike, 1)}
       /\ \E p \in api_products :
             /\ api_products = {p}
             /\ p.category_id = 2
             /\ p.photo_url = NoUrl
             /\ p.in_stock = 1


\* C11: order intake persists nothing for a payload whose item list is empty
\* or absent, or whose type is not 'order'.
C11_IntakeRejects ==
    [][\A d \in Payloads, n \in BOOLEAN :
          (create_order_api(d, n) /\ (d.items = <<>> \/ d.type # "order"))
          => orders' = orders]_vars

\* C12: whenever order intake has persisted an order, the response is the
\* success confirmation carrying the id of that order, also when a
\* notification was not delivered.
C12_AlwaysConfirmed ==
    [][\A d \in Payloads, n \in BOOLEAN :
          (create_order_api(d, n) /\ orders' # orders)
          => /\ last'.res = "success"
             /\ \E o \in orders' \ orders : o.id = last'.id]_vars

\* C13: an order whose notification is not delivered has been inserted with
\* status 'new' and the submitted items and total, and is still so when the
\* request ends; nothing else in the store changes.
C13_PersistedBeforeNotifying ==
    [][\A d \in Payloads :
          (create_order_api(d, FALSE) /\ d.user_id # NULL)
          => \E o \in orders' :
                /\ o.id \notin {x.id : x \in orders}
                /\ orders' = orders \cup {o}
                /\ o.status = "new"
                /\ o.items = [json |-> d.items]
                /\ o.total_price = d.total_price]_vars

\* A request has ended in an error because of a notification, and its order
\* is in the store as new.
C13_Witness ==
    /\ last.op = "create_order_api"
    /\ last.fault = "send_message"
    /\ \E o \in orders :
          /\ o.id = sqlite_sequence.orders
          /\ o.status = "new"
          /\ o.items = [json |-> TwoItems]


\* An event of the administrative entry points and wizard steps, sent by u.
AdminOnlyEvent(u) ==
    \/ show_admin_panel(u)
    \/ add_category_start(u)
    \/ \E t \in {"root", "sub"} : add_category_type(u, t)
    \/ \E id \in 1..MaxCategoryId : select_parent_category(u, id)
    \/ \E m \in CategoryNameMessages : process_category_name(u, m, "none", {})
    \/ add_product_start(u)
    \/ \E id \in 1..MaxCategoryId : select_product_category(u, id)
    \/ \E m \in ProductNameMessages : process_product_name(u, m)
    \/ \E m \in DescriptionMessages : process_product_description(u, m)
    \/ \E m \in PriceMessages : process_product_price(u, m)
    \/ \E m \in PhotoStepMessages : process_product_photo(u, m, "none", {})
    \/ process_all_orders(u)
    \/ clear_all_data_request(u)
    \/ confirm_clear(u)

\* C14: an event of an administrative entry point or wizard step whose
\* sender is not the administrator is answered with a denial and changes no
\* table, no published file and no wizard session.
C14_DeniedChangesNothing ==
    [][\A u \in Users \ {ADMIN_ID} :
          AdminOnlyEvent(u)
          => /\ last'.res = "denied"
             /\ UNCHANGED <<storeVars, snapshotVars, fsmVars>>]_vars

\* Someone else has just been denied while the administrator was in the
\* middle of the add-product wizard and the store held a new order and a
\* category.
C14_Witness ==
    /\ last.res = "denied"
    /\ fsm_state[ADMIN_ID] = "AddProduct:waiting_for_price"
    /\ categories # {}
    /\ \E o \in orders : o.status = "new"

\* The states of both wizards in which the wizard waits for an input.
NonTerminalStates ==
    {"AddCategory:selecting_parent", "AddCategory:waiting_for_name",
     "AddProduct:selecting_category", "AddProduct:waiting_for_name",
     "AddProduct:waiting_for_description", "AddProduct:waiting_for_price",
     "AddProduct:waiting_for_photo"}

\* C15: from every waiting state of both wizards the admin_panel callback of
\* the administrator leaves the session without state and without data, and
\* changes no table and no published file.
C15_CancelClears ==
    [][\A st \in NonTerminalStates :
          (fsm_state[ADMIN_ID] = st /\ show_admin_panel(ADMIN_ID))
          => /\ fsm_state'[ADMIN_ID] = "None"
             /\ fsm_data'[ADMIN_ID] = NoData
             /\ last'.res = "panel"
             /\ UNCHANGED <<storeVars, snapshotVars>>]_vars

\* The administrator is back on the panel with an empty session, having been
\* offered the categories for a product that was never added.
C15_Witness ==
    /\ last.op = "show_admin_panel"
    /\ last.res = "panel"
    /\ fsm_state[ADMIN_ID] = "None"
    /\ fsm_data[ADMIN_ID] = NoData
    /\ keyboards.selectprodcat # {}
    /\ products = {}


\* C16: the product the add-product wizard commits is bound to a category
\* that is in the store and has no child category.
C16_BoundToLeaf ==
    (last.op = "process_product_photo" /\ last.res = "committed")
    => \A p \in products :
          p.id = last.id
          => /\ \E c \in categories : c.id = p.category_id
             /\ ~\E c \in categories : c.parent_id = p.category_id

\* C17: the categories form a forest of depth at most 2: the parent of a
\* category is a category of the store whose own parent_id is null.
C17_ForestOfDepthTwo ==
    \A c \in categories :
        c.parent_id # NULL
        => \E r \in categories :
              r.id = c.parent_id /\ r.id # c.id /\ r.parent_id = NULL

\* A catalog mutation has just run and its export went wrong at some step.
PublishFailed == last'.op \in Mutations /\ last'.fault # "none"

\* What the mutation named by last' has done to the tables.
MutationCommitted ==
    /\ orders' = orders
    /\ last'.op = "add_category" =>
          /\ products' = products
          /\ \E c \in categories' :
                /\ c.id = last'.id
                /\ c.id \notin {x.id : x \in categories}
                /\ categories' = categories \cup {c}
    /\ last'.op = "delete_category" =>
          /\ categories' = {c \in categories : c.id # last'.id}
          /\ products' = products
    /\ last'.op = "add_product" =>
          /\ categories' = categories
          /\ \E p \in products' :
                /\ p.id = last'.id
                /\ p.id \notin {x.id : x \in products}
                /\ products' = products \cup {p}
    /\ last'.op = "delete_product" =>
          /\ categories' = categories
          /\ products' = {p \in products : p.id # last'.id}
    /\ last'.op = "toggle_product_stock" =>
          /\ categories' = categories
          /\ {p.id : p \in products'} = {p.id : p \in products}
          /\ \A p \in products, q \in products' :
                p.id = q.id =>
                    IF p.id = last'.id
                    THEN (p.in_stock = 0) # (q.in_stock = 0)
                    ELSE q = p

\* C18: when the export of add_category, delete_category, add_product,
\* delete_product or toggle_product_stock goes wrong, the change the method
\* made to the tables is the change it makes when the export goes well: the
\* row is inserted, deleted or toggled, and stays so.
C18_MutationStaysCommitted ==
    [][PublishFailed => MutationCommitted]_vars

\* add_category has returned the id of a row that is in the store, after an
\* export that could not write categories.json: the file does not list it.
C18_Witness ==
    /\ last.op = "add_category"
    /\ last.fault = "write_categories"
    /\ \E c \in categories : c.id = last.id
    /\ ~\E c \in api_categories : c.id = last.id

\* C19: a catalog mutation whose export ended with False ends with an
\* outcome of its own, neither the plain success nor the failure.
C19_WarningOutcome ==
    (last.op \in Mutations /\ last.fault \in {"write_products", "write_categories"})
        => last.res \notin {"returned", "True", "False", "raised"}

\* C20: handlers of catalog mutations that overlap, one suspended in
\* export_to_json while another runs, publish as if they had run one after
\* the other: once no export is suspended, the published lists hold exactly
\* the categories and products of the store.
C20_PublishesNotInterleaved ==
    pending = {} => SnapshotMatchesStore

\* C21: when confirm_clear by the administrator has completed, the published
\* category list and product list are empty, like the store.
C21_ResetRepublishes ==
    (last.op = "confirm_clear" /\ last.res = "cleared")
        => api_products = {} /\ api_categories = {}

\* Some row of the three tables is gone after the step, and the step is not
\* the delete of one category or one product.
RowsDeleted ==
    \/ ~({o.id : o \in orders} \subseteq {o.id : o \in orders'})
    \/ /\ last'.op \notin {"delete_category", "delete_product"}
       /\ \/ ~({c.id : c \in categories} \subseteq {c.id : c \in categories'})
          \/ ~({p.id : p \in products} \subseteq {p.id : p \in products'})

\* C22: the clear_all_data request deletes nothing; apart from the delete of
\* one category or one product, rows of the three tables go only in a
\* confirm_clear of the administrator, pressed on a keyboard that a
\* clear_all_data request has sent; and after a confirm_clear of the
\* administrator the three tables are empty.
C22_ResetNeedsConfirmation ==
    [][/\ \A u \in Users : clear_all_data_request(u) => UNCHANGED storeVars
       /\ RowsDeleted =>
             /\ confirm_clear(ADMIN_ID)
             /\ keyboards.confirm_clear
       /\ confirm_clear(ADMIN_ID) =>
             categories' = {} /\ products' = {} /\ orders' = {}]_vars

\* The administrator has confirmed a reset; the tables are empty, and the
\* published lists show that categories and products had been there.
C22_Witness ==
    /\ last.op = "confirm_clear"
    /\ keyboards.confirm_clear
    /\ categories = {} /\ products = {} /\ orders = {}
    /\ api_categories # {} /\ api_products # {}

\* C23: an order payload without the identity fields is persisted all the
\* same, under an identity that is not empty (the sender of the request).
C23_FallsBackToSender ==
    [][\A d \in Payloads, n \in BOOLEAN :
          (create_order_api(d, n) /\ d.user_id = NULL)
          => \E o \in orders' :
                /\ o.id \notin {x.id : x \in orders}
                /\ o.user_id # NULL]_vars

\* A price text that is no number or a number <= 0.
InvalidPrice(text) ==
    \/ Normalised(text).kind \notin {"num", "inf"}
    \/ Normalised(text).kind = "num" /\ Normalised(text).v <= 0

\* The text step left the session, the tables and the files as they were.
Reprompted == UNCHANGED <<storeVars, snapshotVars, fsmVars>>

\* The text step stored `data` for the administrator and moved the session
\* to `state`, and did nothing else.
Accumulated(data, state) ==
    /\ fsm_data' = [fsm_data EXCEPT ![ADMIN_ID] = data]
    /\ fsm_state' = [fsm_state EXCEPT ![ADMIN_ID] = state]
    /\ UNCHANGED <<storeVars, snapshotVars>>

\* C24: in the text steps of the wizards a text that fails validation (a
\* name shorter than 2 characters, a description shorter than 5, a price
\* that is no number or is <= 0) changes no session, no table and no file;
\* a valid product name, description or price stores that one field and
\* moves the session to the next step.
C24_TextSteps ==
    [][\A m \in CategoryNameMessages \cup ProductNameMessages
                \cup DescriptionMessages \cup PriceMessages :
          m.photo = NoPhoto =>
            /\ (process_category_name(ADMIN_ID, m, "none", {})
                    /\ Len(Strip(m.text)) < 2) => Reprompted
            /\ process_product_name(ADMIN_ID, m) =>
                  IF Len(Strip(m.text)) < 2 THEN Reprompted
                  ELSE Accumulated(
                           [fsm_data[ADMIN_ID] EXCEPT !.name = Strip(m.text)],
                           "AddProduct:waiting_for_description")
            /\ process_product_description(ADMIN_ID, m) =>
                  IF Len(Strip(m.text)) < 5 THEN Reprompted
                  ELSE Accumulated(
                           [fsm_data[ADMIN_ID] EXCEPT
                                !.description = Strip(m.text)],
                           "AddProduct:waiting_for_price")
            /\ process_product_price(ADMIN_ID, m) =>
                  IF InvalidPrice(m.text) THEN Reprompted
                  ELSE Accumulated(
                           [fsm_data[ADMIN_ID] EXCEPT
                                !.price = Normalised(m.text)],
                           "AddProduct:waiting_for_photo")]_vars

\* The step each step of the add-product wizard follows.
StepBefore ==
    [s \in {"AddProduct:waiting_for_name", "AddProduct:waiting_for_description",
            "AddProduct:waiting_for_price", "AddProduct:waiting_for_photo"} |->
        CASE s = "AddProduct:waiting_for_name" -> "AddProduct:selecting_category"
          [] s = "AddProduct:waiting_for_description" -> "AddProduct:waiting_for_name"
          [] s = "AddProduct:waiting_for_price" -> "AddProduct:waiting_for_description"
          [] s = "AddProduct:waiting_for_photo" -> "AddProduct:waiting_for_price"]

\* C25: the add-product session enters each step after selecting_category
\* from the step before it only, and a selectprodcat_cat_N or
\* selectparent_cat_N event of the administrator that finds the session in
\* another step than selecting_category or selecting_parent, or finds no
\* session, changes neither the step nor the accumulated fields.
C25_StepsInOrder ==
    [][/\ \A s \in DOMAIN StepBefore :
             (fsm_state'[ADMIN_ID] = s /\ fsm_state[ADMIN_ID] # s)
             => fsm_state[ADMIN_ID] = StepBefore[s]
       /\ \A id \in 1..MaxCategoryId :
             /\ (select_product_category(ADMIN_ID, id)
                    /\ fsm_state[ADMIN_ID] # "AddProduct:selecting_category")
                => UNCHANGED <<fsm_state, fsm_data>>
             /\ (select_parent_category(ADMIN_ID, id)
                    /\ fsm_state[ADMIN_ID] # "AddCategory:selecting_parent")
                => UNCHANGED <<fsm_state, fsm_data>>]_vars

\* C26: one pass through a wizard inserts one row: the terminal handler of a
\* wizard inserts nothing while an earlier run of it has inserted a row and
\* is suspended before its state.clear().
C26_OneCommitPerPass ==
    [][\A op \in {"process_category_name", "process_product_photo"} :
          (last'.op = op /\ last'.res = "suspended")
          => ~\E e \in pending : e.op = op]_vars

\* C27: when the INSERT of the terminal step of a wizard raises, the
\* administrator is answered with the error, no row is created, nothing is
\* published, and the session keeps its step and its fields.
C27_InsertFailureKeepsSession ==
    [][/\ \A m \in CategoryNameMessages :
             (process_category_name(ADMIN_ID, m, "insert", {})
                 /\ m.photo = NoPhoto /\ Len(Strip(m.text)) >= 2)
             => /\ last'.res = "error"
                /\ last'.exports = 0
                /\ UNCHANGED <<storeVars, snapshotVars, fsmVars>>
       /\ \A m \in PhotoStepMessages, f \in InsertFaults :
             (process_product_photo(ADMIN_ID, m, f, {})
                 /\ (f = "insert" \/ IsSqlNull(fsm_data[ADMIN_ID].price)))
             => /\ last'.res = "error"
                /\ last'.exports = 0
                /\ UNCHANGED <<storeVars, snapshotVars, fsmVars>>]_vars

\* The INSERT of a product has just raised: the session still waits for the
\* photo with its four fields, and the store holds a category and no product.
C27_Witness ==
    /\ last.res = "error"
    /\ fsm_state[ADMIN_ID] = "AddProduct:waiting_for_photo"
    /\ fsm_data[ADMIN_ID].category_id # NULL
    /\ fsm_data[ADMIN_ID].name = AirX
    /\ fsm_data[ADMIN_ID].description = AirX
    /\ fsm_data[ADMIN_ID].price = Price9999
    /\ categories # {}
    /\ products = {}

C29_PhotoFailureDegrades ==
    [][\A r \in SUBSET StoredPhotoIds :
          export_to_json("none", r)
          => /\ last'.res = "True"
             /\ api_categories' = categories
             /\ Cardinality(api_products') = Cardinality(products)
             /\ \A p \in products :
                   \E q \in api_products' :
                      /\ q.id = p.id
                      /\ q.name = p.name
                      /\ q.price = p.price
                      /\ q.in_stock = p.in_stock
                      /\ q.photo_url = IF p.photo_id \in r
                                       THEN PhotoUrl(p.photo_id)
                                       ELSE NoUrl]_vars

\* An export has returned True over two products with photos: one is
\* published without a URL, the other with its URL, next to the category.
C29_Witness ==
    /\ last.op = "export_to_json"
    /\ last.res = "True"
    /\ last.fault = "none"
    /\ api_categories # {}
    /\ \E p1, p2 \in products, q1, q2 \in api_products :
          /\ p1.id = q1.id /\ p2.id = q2.id
          /\ p1.photo_id # NoPhoto /\ q1.photo_url = NoUrl
          /\ p2.photo_id # NoPhoto /\ q2.photo_url = PhotoUrl(p2.photo_id)

\* C30: every product of the published list has exactly the fields id, name,
\* description, price, category_id, in_stock and photo_url: no photo_id and
\* no category_name, whatever the store holds.
C30_NoInternalFields ==
    \A q \in api_products :
        DOMAIN q = {"id", "name", "description", "price", "category_id",
                    "in_stock", "photo_url"}

\* The published list holds a product whose row has a photo_id and whose
\* category has a name.
C30_Witness ==
    /\ last.op = "export_to_json"
    /\ \E p \in products, q \in api_products :
          /\ p.id = q.id
          /\ p.photo_id \in StoredPhotoIds
          /\ get_category_name(p.category_id) # NoText

\* C31: add_category, delete_category, add_product, delete_product,
\* toggle_product_stock and the steps of the wizards leave every order as it
\* was: the same ids, users, items, totals and statuses.
C31_CatalogLeavesOrders ==
    [][CatalogEvents => orders' = orders]_vars

\* A product has just been deleted from a store that holds a new order and
\* a processed one.
C31_Witness ==
    /\ last.op = "delete_product"
    /\ \E o \in orders : o.status = "new"
    /\ \E o \in orders : o.status = "processed"

\* C32: process_all_orders run by the administrator leaves every order that
\* was new processed and otherwise as it was, leaves every order that was
\* processed untouched, adds and removes no order, leaves no order new, and
\* reports as its count the number of orders it changed.
C32_BulkProcessing ==
    [][process_all_orders(ADMIN_ID)
       => /\ {o.id : o \in orders'} = {o.id : o \in orders}
          /\ \A o \in orders :
                IF o.status = "new"
                THEN [o EXCEPT !.status = "processed"] \in orders'
                ELSE o \in orders'
          /\ ~\E o \in orders' : o.status = "new"
          /\ last'.id = Cardinality(orders \ orders')]_vars

\* The bulk action has just reported one order, in a store of two orders:
\* the other one had been processed before.
C32_Witness ==
    /\ last.op = "process_all_orders"
    /\ last.id = 1
    /\ Cardinality(orders) = 2
    /\ \A o \in orders : o.status = "processed"

\* The orders of the table O placed by somebody other than u.
OrdersOfOthers(O, u) == {o \in O : o.user_id # u}

\* C33: what /orders and my_orders list for a requester who is not the
\* administrator are the orders whose user_id is the requester's, all of
\* them and no other; the list is the same over every table that differs
\* only in the orders of other users.
C33_ListingScoped ==
    [][\A u \in Users \ {ADMIN_ID} :
          (cmd_orders(u) \/ show_my_orders(u))
          => /\ last'.res = "own"
             /\ last'.id = Cardinality({o \in orders : o.user_id = u})
             /\ {r.id : r \in get_user_orders(orders, u)}
                   = {o.id : o \in orders \ OrdersOfOthers(orders, u)}
             /\ \A others \in SUBSET OrdersOfOthers(orders, u) :
                   get_user_orders(orders \ others, u)
                       = get_user_orders(orders, u)
             /\ UNCHANGED orders]_vars

\* /orders has just listed the one order of a user who is not the
\* administrator, from a table that also holds an order of the
\* administrator.
C33_Witness ==
    /\ last.op = "cmd_orders"
    /\ last.res = "own"
    /\ last.id = 1
    /\ \E o \in orders : o.user_id = ADMIN_ID
    /\ \E o \in orders : o.user_id = Stranger

\* C34: every product of the store has the category_id of a category of the
\* store, whatever the order of the steps of the wizards and the resets.
C34_NoOrphanProduct ==
    \A p \in products : \E c \in categories : c.id = p.category_id

C36_ReadFailureIsAnError ==
    (last.op \in {"get_products_api", "get_categories_api"}
        /\ last.fault # "none") => last.res = "500"

====
